---- MODULE Spec2Model ----
(***************************************************************************)
(* github-zipball-collector.py: one run of main(user).  The run creates    *)
(* the output directory, lists the user's public repositories page by     *)
(* page, logs them, downloads one zipball per listed record and logs      *)
(* "Completed".  The HTTP endpoint is the environment: every response is   *)
(* chosen when the request is issued.  An uncaught Python exception ends   *)
(* the run (pc = "crashed").                                               *)
(***************************************************************************)
EXTENDS Naturals, Sequences, FiniteSets, TLC

VARIABLES
    http_client,        \* "requests" or "urllib": the client bound at import
    pc,                 \* position of the run inside main
    dirs,               \* directories that exist on disk
    files,              \* archive files written by this run: path -> content
    page_index,         \* request_for_public_repositories: page_index
    all_pages_content,  \* request_for_public_repositories: all_pages_content
    repositories,       \* main: repositories
    next_repository,    \* save_repositories: position of the for loop
    listing,            \* every response a listing request got, in order
    downloads,          \* every outcome a download request got, in order
    events              \* requests, directory creations and log lines, in order

vars == <<http_client, pc, dirs, files, page_index, all_pages_content,
          repositories, next_repository, listing, downloads, events>>

(***************************************************************************)
(* Bounds of the environment.                                              *)
(***************************************************************************)
\* the endpoint serves at most MaxRepos entries over all pages of a listing
MaxRepos == 3
\* the endpoint serves at most MaxPages non-empty pages
MaxPages == 2

\* per_page of the listing URL
PerPage == 100

user == "octocat"
Cwd == "/cwd"
Today == "2024-03-05"
Now == "14-07-22"

(***************************************************************************)
(* JSON values.  A repository record is an object of which name and        *)
(* html_url are read; iterating a dict yields its keys, which are strings. *)
(***************************************************************************)
Object(n, u) == [type |-> "object", name |-> n, html_url |-> u, str |-> ""]
String(s) == [type |-> "string", name |-> "", html_url |-> "", str |-> s]

\* two names, one of them carried by two different repositories
Records ==
    { Object("foo", "https://github.com/alice/foo"),
      Object("bar", "https://github.com/alice/bar"),
      Object("foo", "https://github.com/bob/foo") }

\* an error document of the forge, as the keys its iteration yields
ErrorDocument == << String("message"), String("documentation_url") >>

SeqsUpTo(S, n) == UNION { [1..m -> S] : m \in 0..n }

\* what request_for_json can do: return a JSON array, return a JSON object,
\* or raise
ListResponse(items) == [kind |-> "list", items |-> items]
DictResponse(keys) == [kind |-> "dict", items |-> keys]
RaiseResponse == [kind |-> "raise", items |-> <<>>]

Responses(room) ==
    { ListResponse(s) : s \in SeqsUpTo(Records, room) }
        \cup { DictResponse(<<>>), DictResponse(ErrorDocument), RaiseResponse }

\* a test against None in place of the truthiness test
Truthy_not_none(resp) == resp.kind # "raise"

\* Python truthiness of a parsed JSON array or object: non-empty
Truthy(resp) == resp.items # <<>>

(***************************************************************************)
(* Strings the program formats.                                            *)
(***************************************************************************)
DirectoryName(u) == u \o "-Date_" \o Today \o "-Time_" \o Now
AbsPath(d) == Cwd \o "/" \o d
target_directory == AbsPath(DirectoryName(user))

ListingUrl(u, page) ==
    "https://api.github.com/users/" \o u \o "/repos?per_page="
        \o ToString(PerPage) \o "&page=" \o ToString(page)

ZipballUrl(html_url) == html_url \o "/zipball/master/"

ArchivePath(directory, repository_name) ==
    directory \o "/" \o repository_name \o ".zip"

Event(e, a) == [ev |-> e, arg |-> a]

\* a file that exists is left as it is
WriteFile_keep(fs, path, content) ==
    [p \in DOMAIN fs \cup {path} |-> IF p \in DOMAIN fs THEN fs[p] ELSE content]

\* open(path, 'wb') and the copy of the body: the file is created or replaced
WriteFile(fs, path, content) ==
    [p \in DOMAIN fs \cup {path} |-> IF p = path THEN content ELSE fs[p]]

(***************************************************************************)
(* main: the call that follows each call, in the order main makes them.    *)
(***************************************************************************)
\* the archives saved before the repositories are logged
MainNext_save_first(p) ==
    CASE p = "main" -> "listing"
      [] p = "listing" -> "saving"
      [] p = "saving" -> "print"
      [] p = "print" -> "done"

MainNext(p) ==
    CASE p = "main" -> "listing"
      [] p = "listing" -> "print"
      [] p = "print" -> "saving"
      [] p = "saving" -> "done"

(***************************************************************************)
(* Init: the module has been imported, main has not started.               *)
(***************************************************************************)
Init ==
    /\ http_client \in {"requests", "urllib"}
    /\ pc = "main"
    /\ dirs \in {{}, {target_directory}}
    /\ files = << >>
    /\ page_index = 0
    /\ all_pages_content = <<>>
    /\ repositories = <<>>
    /\ next_repository = 1
    /\ listing = <<>>
    /\ downloads = <<>>
    /\ events = <<>>

(***************************************************************************)
(* main, first part: log the client, create_directory_if_not_exist, log    *)
(* the target directory.  os.makedirs may raise.                           *)
(***************************************************************************)
CreateDirectory ==
    /\ pc = "main"
    /\ IF target_directory \in dirs
       THEN /\ pc' = MainNext(pc)
            /\ dirs' = dirs
            /\ events' = events \o << Event("client", http_client),
                                      Event("target", target_directory) >>
       ELSE \E ok \in BOOLEAN :
            IF ok
            THEN /\ pc' = MainNext(pc)
                 /\ dirs' = dirs \cup {target_directory}
                 /\ events' = events \o << Event("client", http_client),
                                           Event("creating", target_directory),
                                           Event("makedirs", target_directory),
                                           Event("target", target_directory) >>
            ELSE /\ pc' = "crashed"
                 /\ dirs' = dirs
                 /\ events' = events \o << Event("client", http_client),
                                           Event("creating", target_directory),
                                           Event("makedirs", target_directory) >>
    /\ UNCHANGED <<http_client, files, page_index, all_pages_content,
                   repositories, next_repository, listing, downloads>>

(***************************************************************************)
(* request_for_public_repositories: one turn of                            *)
(*     while page := request_for_page(user, page_index)                    *)
(* The request is issued, the endpoint answers, and the walrus test        *)
(* decides between the loop body and the return to main.                   *)
(***************************************************************************)
\* number of repository records already served by the endpoint
Served(acc) == Cardinality({ i \in 1..Len(acc) : acc[i].type = "object" })

\* the answers the bounded endpoint can give to the request for page p
Answers(acc, p) ==
    { r \in Responses(MaxRepos - Served(acc)) : Truthy(r) => p < MaxPages }

\* a page put in front of the pages before it
Extend_prepend(acc, page) == page.items \o acc

\* all_pages_content += page
Extend(acc, page) == acc \o page.items

\* the page index of the next request
NextPage(p) == p + 1

\* an exception of request_for_json taken for the end of the listing
PageTurn_swallow(page) ==
    IF page.kind = "raise" THEN "return"
    ELSE IF Truthy(page) THEN "body"
    ELSE "return"

\* what one turn of the while loop does with the answer: the exception of
\* request_for_json propagates, a truthy page enters the body, a falsy one
\* ends the loop
PageTurn(page) ==
    IF page.kind = "raise" THEN "raise"
    ELSE IF Truthy(page) THEN "body"
    ELSE "return"

RequestPage ==
    /\ pc = "listing"
    /\ \E page \in Answers(all_pages_content, page_index) :
        /\ events' = Append(events, Event("list", ListingUrl(user, page_index)))
        /\ listing' = Append(listing, page)
        /\ IF PageTurn(page) = "raise"
           THEN /\ pc' = "crashed"
                /\ UNCHANGED <<page_index, all_pages_content, repositories>>
           ELSE IF PageTurn(page) = "body"
           THEN /\ all_pages_content' = Extend(all_pages_content, page)
                /\ page_index' = NextPage(page_index)
                /\ UNCHANGED <<pc, repositories>>
           ELSE /\ pc' = MainNext(pc)
                /\ repositories' = all_pages_content
                /\ UNCHANGED <<page_index, all_pages_content>>
    /\ UNCHANGED <<http_client, dirs, files, next_repository, downloads>>

(***************************************************************************)
(* print_received_repositories: repository['name'] of a str raises         *)
(* TypeError, which ends the run.                                          *)
(***************************************************************************)
\* index of the first element that is not an object, or Len + 1
FirstNonObject(repos) ==
    IF \E i \in 1..Len(repos) : repos[i].type # "object"
    THEN CHOOSE i \in 1..Len(repos) :
            /\ repos[i].type # "object"
            /\ \A j \in 1..(i - 1) : repos[j].type = "object"
    ELSE Len(repos) + 1

PrintReceived ==
    /\ pc = "print"
    /\ LET stop == FirstNonObject(repositories)
       IN /\ events' = events \o << Event("got", "") >>
                \o [i \in 1..(stop - 1) |-> Event("public", repositories[i].name)]
          /\ pc' = IF stop <= Len(repositories) THEN "crashed" ELSE MainNext(pc)
    /\ UNCHANGED <<http_client, dirs, files, page_index, all_pages_content,
                   repositories, next_repository, listing, downloads>>

(***************************************************************************)
(* download_file of the two clients.  An outcome is what the HTTP stack    *)
(* does with the GET: raise before a response arrives, or deliver a        *)
(* response with a status whose body streams completely or breaks.         *)
(***************************************************************************)
Raise == [kind |-> "raise", status |-> 0, complete |-> FALSE]
Response(s, c) == [kind |-> "response", status |-> s, complete |-> c]

DownloadOutcomes ==
    { Raise, Response(200, TRUE), Response(200, FALSE),
      Response(204, TRUE), Response(404, TRUE) }

Content(url, o) == [from |-> url, status |-> o.status, complete |-> o.complete]

\* the result of a download_file call: the files, and whether it raised
Result(fs, r) == [files |-> fs, raised |-> r]

\* the body written whatever the status of the response
RequestsDownloadFile_unchecked(o, fs, url, directory, repository_name) ==
    IF o.kind = "raise"
    THEN Result(fs, TRUE)
    ELSE Result(WriteFile(fs, ArchivePath(directory, repository_name),
                          Content(url, o)),
                ~o.complete)

\* RequestsHttpClient.download_file
RequestsDownloadFile(o, fs, url, directory, repository_name) ==
    IF o.kind = "raise"
    THEN Result(fs, TRUE)
    ELSE IF o.status = 200
    THEN Result(WriteFile(fs, ArchivePath(directory, repository_name),
                          Content(url, o)),
                ~o.complete)
    ELSE Result(fs, FALSE)

\* UrllibHttpClient.download_file: urlretrieve opens the URL with urlopen,
\* which raises HTTPError for a status outside 2xx, then writes the body
UrllibDownloadFile(o, fs, url, directory, repository_name) ==
    IF o.kind = "raise"
    THEN Result(fs, TRUE)
    ELSE IF o.status \notin 200..299
    THEN Result(fs, TRUE)
    ELSE Result(WriteFile(fs, ArchivePath(directory, repository_name),
                          Content(url, o)),
                ~o.complete)

DownloadFile(client, o, fs, url, directory, repository_name) ==
    IF client = "requests"
    THEN RequestsDownloadFile(o, fs, url, directory, repository_name)
    ELSE UrllibDownloadFile(o, fs, url, directory, repository_name)

(***************************************************************************)
(* save_repositories: one turn of the for loop.                            *)
(***************************************************************************)
SaveRepository ==
    /\ pc = "saving"
    /\ next_repository <= Len(repositories)
    /\ \E o \in DownloadOutcomes :
        LET repository == repositories[next_repository]
            repository_name == repository.name
            zipball_url == ZipballUrl(repository.html_url)
            r == DownloadFile(http_client, o, files, zipball_url,
                              target_directory, repository_name)
        IN /\ events' = events \o << Event("saving", repository_name),
                                     Event("download", zipball_url) >>
           /\ downloads' = Append(downloads, o)
           /\ files' = r.files
           /\ IF r.raised
              THEN /\ pc' = "crashed"
                   /\ UNCHANGED next_repository
              ELSE /\ next_repository' = next_repository + 1
                   /\ UNCHANGED pc
    /\ UNCHANGED <<http_client, dirs, page_index, all_pages_content,
                   repositories, listing>>

(***************************************************************************)
(* main, last part: save_repositories has returned; log "Completed".       *)
(***************************************************************************)
LogCompleted ==
    /\ pc = "saving"
    /\ next_repository > Len(repositories)
    /\ pc' = MainNext(pc)
    /\ events' = Append(events, Event("Completed", ""))
    /\ UNCHANGED <<http_client, dirs, files, page_index, all_pages_content,
                   repositories, next_repository, listing, downloads>>

Next ==
    \/ CreateDirectory
    \/ RequestPage
    \/ PrintReceived
    \/ SaveRepository
    \/ LogCompleted

Spec == Init /\ [][Next]_vars

\* the run is sequential and every step that is enabled is taken
FairSpec == Spec /\ WF_vars(Next)

(***************************************************************************)
(* Observations on the history of a run.                                   *)
(***************************************************************************)
EventsOf(kind) == SelectSeq(events, LAMBDA e : e.ev = kind)

\* page k (counted from 0) is the first empty page, after k non-empty pages
FirstEmptyPage(k) ==
    /\ Len(listing) > k
    /\ listing[k + 1] = ListResponse(<<>>)
    /\ \A i \in 1..k : listing[i].kind = "list" /\ listing[i].items # <<>>

RECURSIVE Concatenation(_, _)
Concatenation(pages, k) ==
    IF k = 0 THEN <<>> ELSE Concatenation(pages, k - 1) \o pages[k].items

\* C1: when page k is the first empty page, the pages requested are
\* 0, 1, ..., k in ascending order, each once and none after k, and the
\* lister has returned the concatenation of pages 0..k-1 in page order and
\* within-page order.
C1_ListerReturnsConcatenation ==
    \A k \in 0..Len(listing) :
        FirstEmptyPage(k) =>
            /\ EventsOf("list") =
                 [i \in 1..(k + 1) |-> Event("list", ListingUrl(user, i - 1))]
            /\ Len(listing) = k + 1
            /\ pc # "listing"
            /\ repositories = Concatenation(listing, k)

C1_Witness ==
    /\ FirstEmptyPage(2)
    /\ Len(listing[1].items) = 2
    /\ listing[1].items[1] # listing[1].items[2]
    /\ listing[2].items[1] # listing[1].items[1]
    /\ pc = "print"

\* the stage of main an event belongs to
Stage(e) ==
    CASE e.ev \in {"client", "creating", "makedirs", "target"} -> 1
      [] e.ev = "list" -> 2
      [] e.ev \in {"got", "public"} -> 3
      [] e.ev \in {"saving", "download"} -> 4
      [] e.ev = "Completed" -> 5

\* C3: the stages of a run occur in the order create directory, list, log
\* the repositories, download, log "Completed": the first event belongs to
\* the directory stage, every later event belongs to the stage of the event
\* before it or to the next stage (downloading is passed over only when
\* "Completed" follows the logging at once), nothing follows "Completed",
\* and no download request is issued while the listing has not returned.
C3_StagesInOrder ==
    /\ events # <<>> => Stage(events[1]) = 1
    /\ \A i \in 1..(Len(events) - 1) :
          LET a == Stage(events[i])
              b == Stage(events[i + 1])
          IN /\ a <= b
             /\ b <= a + 1 \/ (a = 3 /\ b = 5)
             /\ a # 5
    /\ EventsOf("download") # <<>> =>
          /\ pc # "listing"
          /\ listing # <<>>
          /\ ~Truthy(listing[Len(listing)])
          /\ listing[Len(listing)].kind # "raise"

C3_Witness ==
    /\ pc = "done"
    /\ Len(EventsOf("list")) = 3
    /\ Len(EventsOf("download")) = 2
    /\ Len(EventsOf("public")) = 2
    /\ events[Len(events)].ev = "Completed"

ListingRaised == \E i \in 1..Len(listing) : listing[i].kind = "raise"

\* C10: when a listing page fetch raises, the run has ended there: no
\* download request is issued, no archive file is written, "Completed" is
\* not logged, and the output directory is still in place.
C10_ListingFailureIsFatal ==
    ListingRaised =>
        /\ pc = "crashed"
        /\ listing[Len(listing)].kind = "raise"
        /\ EventsOf("download") = <<>>
        /\ downloads = <<>>
        /\ files = << >>
        /\ EventsOf("Completed") = <<>>
        /\ target_directory \in dirs

C10_Witness ==
    /\ Len(listing) = 2
    /\ listing[1].kind = "list"
    /\ Len(listing[1].items) = 2
    /\ listing[2].kind = "raise"
    /\ all_pages_content = listing[1].items

(***************************************************************************)
(* The downloads of a run: download i is the one of repositories[i].       *)
(***************************************************************************)
Downloaded == 1..Len(downloads)

PathOf(i) == ArchivePath(target_directory, repositories[i].name)

\* the response of download i is one the active client writes to disk
Written(i) ==
    /\ downloads[i].kind = "response"
    /\ IF http_client = "requests"
       THEN downloads[i].status = 200
       ELSE downloads[i].status \in 200..299

\* download i got a success response and its body was streamed to the end
Succeeded(i) == Written(i) /\ downloads[i].complete

RunEnded == pc \in {"done", "crashed"}

\* C7, as claimed: when a run has logged "Completed", every archive file
\* is named {name}.zip for exactly one processed record whose download
\* succeeded, and every record whose download succeeded has an archive
\* file of its own, also when two listed records have the same name.
C7_OneToOne ==
    pc = "done" =>
        /\ \A path \in DOMAIN files :
              Cardinality({ i \in Downloaded :
                              Succeeded(i) /\ PathOf(i) = path }) = 1
        /\ \A i \in Downloaded :
              Succeeded(i) =>
                  /\ PathOf(i) \in DOMAIN files
                  /\ \A j \in Downloaded :
                        Succeeded(j) /\ j # i => PathOf(j) # PathOf(i)

\* C7, amended: at every point of a run, every archive file is named
\* {name}.zip for at least one processed record whose response the client
\* wrote, and holds the body served for the last such record of that name;
\* every processed record whose response the client wrote has the archive
\* file of its name.  Records of the same name share one file.
C7_FilesMatchWrittenRecords ==
    /\ \A path \in DOMAIN files :
          \E i \in Downloaded :
              /\ Written(i)
              /\ PathOf(i) = path
              /\ files[path] =
                   Content(ZipballUrl(repositories[i].html_url), downloads[i])
              /\ \A j \in Downloaded :
                    j > i /\ Written(j) => PathOf(j) # path
    /\ \A i \in Downloaded : Written(i) => PathOf(i) \in DOMAIN files

C7_Witness ==
    /\ pc = "done"
    /\ Len(downloads) = 3
    /\ \A i \in Downloaded : Succeeded(i)
    /\ repositories[1].name = repositories[3].name
    /\ repositories[1].html_url # repositories[3].html_url
    /\ repositories[2].name # repositories[1].name
    /\ Cardinality(DOMAIN files) = 2

\* this step is a download whose response has a status other than 200
NonOkDownloadStep ==
    /\ Len(downloads') = Len(downloads) + 1
    /\ downloads'[Len(downloads')].kind = "response"
    /\ downloads'[Len(downloads')].status # 200

\* C9: with the requests client, a download whose response status is not
\* 200 changes no file and no directory, raises nothing, and the loop of
\* save_repositories moves on to the next record.
C9_NonOkIsNoOp ==
    [][ (http_client = "requests" /\ NonOkDownloadStep) =>
            /\ files' = files
            /\ dirs' = dirs
            /\ pc = "saving" /\ pc' = "saving"
            /\ next_repository' = next_repository + 1 ]_vars

C9_Witness ==
    /\ http_client = "requests"
    /\ Len(downloads) = 3
    /\ downloads[1] = Response(200, TRUE)
    /\ downloads[2] = Response(404, TRUE)
    /\ downloads[3] = Response(204, TRUE)
    /\ PathOf(1) = PathOf(2)
    /\ PathOf(3) # PathOf(1)
    /\ DOMAIN files = {PathOf(1)}
    /\ files[PathOf(1)].from = ZipballUrl(repositories[1].html_url)
    /\ next_repository = 4

EmptyFirstPage == listing # <<>> /\ listing[1] = ListResponse(<<>>)

\* C8: when the first listing page is empty, the output directory exists,
\* exactly one listing request and no download request is issued, no
\* archive file is written, the run does not fail, and "Completed" is
\* logged in the end.
C8_EmptyListingCompletes ==
    /\ [](EmptyFirstPage =>
            /\ target_directory \in dirs
            /\ Len(EventsOf("list")) = 1
            /\ EventsOf("download") = <<>>
            /\ downloads = <<>>
            /\ files = << >>
            /\ pc # "crashed")
    /\ (EmptyFirstPage ~> (pc = "done" /\ Len(EventsOf("Completed")) = 1))

C8_Witness ==
    /\ EmptyFirstPage
    /\ pc = "done"
    /\ EventsOf("makedirs") # <<>>
    /\ events[Len(events)] = Event("Completed", "")

(***************************************************************************)
(* Claims the code does not meet.                                          *)
(***************************************************************************)
\* C2: every record passed to save_repositories produces exactly one
\* download request, to html_url followed by "/zipball/master/", in list
\* order, no request is issued for anything else, and a record whose
\* response is successful has its file {directory}/{name}.zip.
C2_OneRequestPerRecord ==
    /\ \A i \in 1..Len(EventsOf("download")) :
          /\ i <= Len(repositories)
          /\ EventsOf("download")[i] =
               Event("download", ZipballUrl(repositories[i].html_url))
    /\ \A i \in Downloaded :
          downloads[i].kind = "response" /\ downloads[i].status = 200 =>
              PathOf(i) \in DOMAIN files
    /\ (RunEnded /\ EventsOf("saving") # <<>>) =>
          Len(EventsOf("download")) = Len(repositories)

\* the lister has returned a list of repository records
ListingSucceeded ==
    /\ listing # <<>>
    /\ listing[Len(listing)] = ListResponse(<<>>)
    /\ \A i \in 1..Len(listing) : listing[i].kind = "list"

\* C4: once listing has succeeded, the run does not fail, whatever the
\* number of downloads that get a response outside 2xx and whichever
\* client is active, and so goes on to log "Completed".
C4_CompletedDespiteFailedStatus ==
    (/\ ListingSucceeded
     /\ \A i \in Downloaded :
           downloads[i].kind = "response" /\ downloads[i].complete)
        => pc # "crashed"

\* C5: a listing response that is an empty page or a JSON object that is
\* not a sequence ends the pagination loop: it is the last response
\* requested and nothing of it is in the accumulated list.
C5_LoopStopsOnEmptyOrErrorDocument ==
    \A i \in 1..Len(listing) :
        (listing[i] = ListResponse(<<>>) \/ listing[i].kind = "dict") =>
            /\ i = Len(listing)
            /\ pc # "listing"
            /\ \A j \in 1..Len(all_pages_content) :
                  all_pages_content[j].type = "object"

\* C6: an exception of the HTTP stack during one download drops only that
\* archive: the run does not end there, it goes on with the records that
\* remain and with "Completed".
C6_DownloadExceptionDropsOneArchive ==
    \A i \in Downloaded :
        downloads[i].kind = "raise" =>
            /\ pc \in {"saving", "done"}
            /\ next_repository > i
====
